---------------------------- MODULE Spec2Model ----------------------------
(***************************************************************************)
(* A model of storitaimu.py: the audio analysis pipeline (analyze_audio    *)
(* and the __main__ entry point), the file locator (find_audio_file) and   *)
(* the filler-word detector (analyze_filler_words).                        *)
(*                                                                         *)
(* Text (file names, transcripts) is a sequence of one-character strings,  *)
(* so that lower(), endswith(), splitext() and the \b regular expressions  *)
(* are computed character by character, as Python computes them.           *)
(***************************************************************************)
EXTENDS Integers, Sequences, FiniteSets, TLC

VARIABLES
    \* ---- the filesystem
    cwd,            \* the working directory: its listing, <<[name, content], ...>>
    dataDir,        \* whether ./data exists
    folders,        \* the directories that exist under ./data
    files,          \* the files under ./data: <<folder, filename>> -> content
    \* ---- one run of the program
    pc,             \* where the run is
    audio_file,     \* analyze_audio's locals
    analysis_id,
    folder_name,
    transcript,
    metrics,
    review,
    \* ---- what the run and the runs before it did (history)
    run,            \* the number of the current run
    trace,          \* the stages of analyze_audio this run entered, in order
    failed_at,      \* the stage of this run that raised, or ""
    calls,          \* how often this run called each collaborator
    response,       \* what the completion collaborator returned to this run
    src_content,    \* the content the audio file had when it was located
    run_writes,     \* the artifact names this run opened for writing
    writes,         \* <<folder, filename>> -> how often it was opened for writing
    folderUses,     \* folder -> how many runs moved their audio file into it
    start,          \* the filesystem as it was when this run started
    \* ---- find_audio_file on its own
    listing,        \* a directory listing (names)
    found,          \* what find_audio_file returned for it: <<>>, then <<result>>
    \* ---- analyze_filler_words on its own
    text,           \* a transcript
    edit,           \* the insertion made into it: <<>>, then <<[filler, pos]>>
    before,         \* analyze_filler_words(text)
    after           \* analyze_filler_words(the text after the insertion)

fsVars      == <<cwd, dataDir, folders, files>>
localVars   == <<audio_file, analysis_id, folder_name, transcript, metrics, review>>
historyVars == <<run, trace, failed_at, calls, response, src_content, run_writes,
                 writes, folderUses, start>>
pipeVars    == <<fsVars, pc, localVars, historyVars>>
locatorVars == <<listing, found>>
fillerVars  == <<text, edit, before, after>>
vars        == <<pipeVars, locatorVars, fillerVars>>

\* None where a str is expected; `if not audio_file` takes None and '' alike
None == <<>>

-----------------------------------------------------------------------------
(* Text *)

UpperOf ==
    [c \in {"a", "c", "m", "p", "w", "v", "u", "h", "l", "i", "k", "e"} |->
        CASE c = "a" -> "A" [] c = "c" -> "C" [] c = "m" -> "M" [] c = "p" -> "P"
          [] c = "w" -> "W" [] c = "v" -> "V" [] c = "u" -> "U" [] c = "h" -> "H"
          [] c = "l" -> "L" [] c = "i" -> "I" [] c = "k" -> "K" [] c = "e" -> "E"]

UpperCaseChars == {UpperOf[c] : c \in DOMAIN UpperOf}

\* str.lower() on one character
LowerChar(ch) ==
    IF ch \in UpperCaseChars
    THEN CHOOSE c \in DOMAIN UpperOf : UpperOf[c] = ch
    ELSE ch

\* str.lower()
lower(s) == [i \in 1..Len(s) |-> LowerChar(s[i])]

\* str.endswith(suffix) for one suffix
EndsWithOne(s, suffix) ==
    /\ Len(suffix) <= Len(s)
    /\ SubSeq(s, Len(s) - Len(suffix) + 1, Len(s)) = suffix

\* str.endswith(tuple of suffixes)
endswith(s, suffixes) == \E i \in 1..Len(suffixes) : EndsWithOne(s, suffixes[i])

\* \w of Python's re on str: letters, digits and the underscore
WordChars ==
    {"a", "c", "d", "e", "f", "h", "i", "k", "l", "m", "n", "o", "p", "r", "s",
     "t", "u", "v", "w", "x", "y", "3", "4", "_"} \cup UpperCaseChars

IsWordChar(ch) == ch \in WordChars

\* str.isspace() on one character
IsSpace(ch) == ch = " "

-----------------------------------------------------------------------------
(* find_audio_file *)

audio_extensions ==
    << <<".", "m", "p", "3">>, <<".", "m", "4", "a">>, <<".", "w", "a", "v">>,
       <<".", "a", "a", "c">>, <<".", "m", "p", "4">> >>

RECURSIVE FirstAudio(_, _)
\* the loop of find_audio_file from entry i of the listing on
FirstAudio(fs, i) ==
    IF i > Len(fs) THEN None
    ELSE IF endswith(lower(fs[i]), audio_extensions) THEN fs[i]
    ELSE FirstAudio(fs, i + 1)

\* a plausible slip: the match is made on the name as it is spelled
RECURSIVE FirstAudioCaseSensitive(_, _)
FirstAudioCaseSensitive(fs, i) ==
    IF i > Len(fs) THEN None
    ELSE IF endswith(fs[i], audio_extensions) THEN fs[i]
    ELSE FirstAudioCaseSensitive(fs, i + 1)

find_audio_file_case_sensitive(fs) == FirstAudioCaseSensitive(fs, 1)

find_audio_file(fs) == FirstAudio(fs, 1)

-----------------------------------------------------------------------------
(* analyze_filler_words *)

\* the keys of common_fillers, in the order of the dict
FillerNames == <<"um", "uh", "like", "you know", "sort of", "kind of">>

\* the literal between the two \b of each pattern of common_fillers
FillerText(f) ==
    CASE f = "um"       -> <<"u", "m">>
      [] f = "uh"       -> <<"u", "h">>
      [] f = "like"     -> <<"l", "i", "k", "e">>
      [] f = "you know" -> <<"y", "o", "u", " ", "k", "n", "o", "w">>
      [] f = "sort of"  -> <<"s", "o", "r", "t", " ", "o", "f">>
      [] f = "kind of"  -> <<"k", "i", "n", "d", " ", "o", "f">>

\* \b between s[i] and s[i+1] (i in 0..Len(s)): exactly one side is a \w character
WordBoundary(s, i) ==
    LET left  == i >= 1 /\ IsWordChar(s[i])
        right == i < Len(s) /\ IsWordChar(s[i + 1])
    IN  left # right

LiteralAt(s, i, lit) ==
    /\ i + Len(lit) - 1 <= Len(s)
    /\ SubSeq(s, i, i + Len(lit) - 1) = lit

\* a plausible slip: the pattern without its \b anchors
common_fillers_unanchored(s, i, lit) == LiteralAt(s, i, lit)

\* r'\b<lit>\b' matches s at position i
common_fillers(s, i, lit) ==
    /\ LiteralAt(s, i, lit)
    /\ WordBoundary(s, i - 1)
    /\ WordBoundary(s, i + Len(lit) - 1)

RECURSIVE FindAllFrom(_, _, _)
\* len(re.findall(pattern, s)): the non-overlapping matches, leftmost first
FindAllFrom(s, i, lit) ==
    IF i > Len(s) THEN 0
    ELSE IF common_fillers(s, i, lit) THEN 1 + FindAllFrom(s, i + Len(lit), lit)
    ELSE FindAllFrom(s, i + 1, lit)

analyze_filler_words(t) ==
    LET low      == lower(t)
        count(f) == FindAllFrom(low, 1, FillerText(f))
        kept     == {i \in 1..Len(FillerNames) : count(FillerNames[i]) > 0}
    IN  [f \in {FillerNames[i] : i \in kept} |-> count(f)]

\* dict.get(f, 0)
CountOf(d, f) == IF f \in DOMAIN d THEN d[f] ELSE 0

RECURSIVE SumValues(_, _)
SumValues(d, keys) ==
    IF keys = {} THEN 0
    ELSE LET k == CHOOSE k \in keys : TRUE
         IN  d[k] + SumValues(d, keys \ {k})

\* sum(filler_counts.values())
total_fillers(d) == SumValues(d, DOMAIN d)

RECURSIVE WordsFrom(_, _)
\* len(transcript.split()): the maximal runs of non-whitespace
WordsFrom(t, i) ==
    IF i > Len(t) THEN 0
    ELSE (IF ~IsSpace(t[i]) /\ (i = 1 \/ IsSpace(t[i - 1])) THEN 1 ELSE 0)
         + WordsFrom(t, i + 1)

word_count(t) == WordsFrom(t, 1)

-----------------------------------------------------------------------------
(* The bounds of the model *)

MaxEntries == 3     \* the longest directory listing find_audio_file is given
MaxPieces  == 2     \* the most pieces a transcript is put together from
MaxRuns    == 2     \* the most runs of the program in a row

-----------------------------------------------------------------------------
(* The pipeline at rest, for the specifications of the two pure functions *)

EmptyMap == [k \in {} |-> 0]

NoMetrics == [word_count |-> 0, filler_words |-> EmptyMap, total_filler_words |-> 0]

NoReview == [summary |-> "", story_strength |-> "", story_length |-> "",
             suggestions |-> <<>>]

NoResponse == [kind |-> "none"]

Snapshot == [cwd |-> cwd, dataDir |-> dataDir, folders |-> folders, files |-> files]

\* the locals and the history of a run that has not begun
FreshRun ==
    /\ audio_file = None /\ analysis_id = "" /\ folder_name = <<>>
    /\ transcript = <<>> /\ metrics = NoMetrics /\ review = NoReview
    /\ trace = <<>> /\ failed_at = ""
    /\ calls = [whisper |-> 0, llm |-> 0]
    /\ response = NoResponse /\ src_content = "" /\ run_writes = {}

PipelineIdle ==
    /\ cwd = <<>> /\ dataDir = FALSE /\ folders = {} /\ files = EmptyMap
    /\ pc = "idle" /\ run = 0
    /\ FreshRun
    /\ writes = EmptyMap /\ folderUses = EmptyMap
    /\ start = Snapshot

LocatorIdle == listing = <<>> /\ found = <<>>

FillerIdle == text = <<>> /\ edit = <<>> /\ before = EmptyMap /\ after = EmptyMap

-----------------------------------------------------------------------------
(* find_audio_file on the listings of a directory *)

\* the entries a listing is drawn from
EntryNames ==
    { <<"a", ".", "m", "p", "3">>,                  \* a.mp3
      <<"a", ".", "M", "p", "3">>,                  \* a.Mp3
      <<"c", ".", "W", "A", "V">>,                  \* c.WAV
      <<"c", ".", "m", "p", "4">>,                  \* c.mp4
      <<".", "a", "a", "c">>,                       \* .aac
      <<"m", "4", "a">>,                            \* m4a, no dot
      <<"a", ".", "m", "p", "3", ".", "t">>,        \* a.mp3.t
      <<"d", "a", "t", "a">> }                      \* data

RECURSIVE Listings(_)
\* the listings of at most n entries; a directory holds a name once
Listings(n) ==
    IF n = 0 THEN {<<>>}
    ELSE LET shorter == Listings(n - 1)
         IN  shorter \cup
             {Append(l, e) : <<l, e>> \in
                 {p \in shorter \X EntryNames :
                     \A i \in 1..Len(p[1]) : p[1][i] # p[2]}}

InitLocator ==
    /\ PipelineIdle /\ FillerIdle
    /\ listing \in Listings(MaxEntries)
    /\ found = <<>>

\* one call of find_audio_file in the directory
CallFindAudioFile ==
    /\ found = <<>>
    /\ found' = <<find_audio_file(listing)>>
    /\ UNCHANGED <<listing, pipeVars, fillerVars>>

NextLocator == CallFindAudioFile

SpecLocator == InitLocator /\ [][NextLocator]_vars

-----------------------------------------------------------------------------
(* analyze_filler_words on transcripts, and on what an insertion makes of them *)

\* what a transcript is put together from
Pieces ==
    { <<"u", "m">>, <<"U", "h">>, <<"l", "i", "k", "e">>, <<"L", "I", "K", "E">>,
      <<"y", "o", "u", " ", "k", "n", "o", "w">>,
      <<"s", "o", "r", "t", " ", "o", "f">>,
      <<"k", "i", "n", "d", " ", "o", "f">>,
      <<"x">>, <<"_">>, <<" ">>, <<",">> }

RECURSIVE Texts(_)
Texts(n) ==
    IF n = 0 THEN {<<>>}
    ELSE LET shorter == Texts(n - 1)
         IN  shorter \cup {p[1] \o p[2] : p \in shorter \X Pieces}

\* s with ins put in after its first pos characters
InsertAt(s, pos, ins) == SubSeq(s, 1, pos) \o ins \o SubSeq(s, pos + 1, Len(s))

InitFiller ==
    /\ PipelineIdle /\ LocatorIdle
    /\ text \in Texts(MaxPieces)
    /\ edit = <<>> /\ before = EmptyMap /\ after = EmptyMap

\* the detector runs on the transcript, and on the transcript with a filler
\* expression put in somewhere
CountAndInsert ==
    /\ edit = <<>>
    /\ \E i \in 1..Len(FillerNames), pos \in 0..Len(text) :
          /\ edit' = <<[filler |-> FillerNames[i], pos |-> pos]>>
          /\ before' = analyze_filler_words(text)
          /\ after' = analyze_filler_words(InsertAt(text, pos, FillerText(FillerNames[i])))
    /\ UNCHANGED <<text, pipeVars, locatorVars>>

NextFiller == CountAndInsert

SpecFiller == InitFiller /\ [][NextFiller]_vars

-----------------------------------------------------------------------------
(* The pipeline: the __main__ block and analyze_audio *)

\* os.path.splitext on a name without a directory part: the name is cut at its
\* last dot, unless only dots come before that dot
splitext(p) ==
    LET dots == {i \in 1..Len(p) : p[i] = "."}
        dot  == IF dots = {} THEN 0 ELSE CHOOSE i \in dots : \A j \in dots : j <= i
    IN  IF dot > 0 /\ \E k \in 1..(dot - 1) : p[k] # "."
        THEN <<SubSeq(p, 1, dot - 1), SubSeq(p, dot, Len(p))>>
        ELSE <<p, <<>>>>

\* f"{analysis_id}-{os.path.splitext(audio_file)[0]}"; the identifier, eight
\* hexadecimal digits, is kept as one element
folder_path(id, file) == <<id, "-">> \o splitext(file)[1]

TranscriptTxt == <<"t", "r", "a", "n", "s", "c", "r", "i", "p", "t", ".", "t", "x", "t">>
AnalysisJson  == <<"a", "n", "a", "l", "y", "s", "i", "s", ".", "j", "s", "o", "n">>

\* str(uuid.uuid4())[:8]: two of the identifiers a run may draw; two runs may
\* draw the same one
Ids == {"1a2b3c4d", "9f8e7d6c"}

\* what the transcription collaborator may return
Transcripts ==
    { <<>>, <<" ">>, <<"U", "m", ",", " ", "l", "i", "k", "e">> }

StoryStrength == {"weak", "average", "good", "strong", "excellent"}
StoryLength   == {"too short", "just right", "too long"}
ReviewKeys    == {"summary", "story_strength", "story_length", "suggestions"}

GoodObject == [summary |-> "a talk", story_strength |-> "good",
               story_length |-> "just right", suggestions |-> <<"slow down">>]

\* what the completion collaborator may return as response.text
Responses ==
    { [kind |-> "garbage"],
      [kind |-> "array"],
      [kind |-> "object", obj |-> GoodObject],
      [kind |-> "object", obj |-> [GoodObject EXCEPT !.suggestions = <<>>]],
      [kind |-> "object", obj |-> [GoodObject EXCEPT !.story_strength = "great"]],
      [kind |-> "object", obj |-> [GoodObject EXCEPT !.story_length = "long"]] }
    \cup
    { [kind |-> "object", obj |-> [k \in ReviewKeys \ {gone} |-> GoodObject[k]]] :
        gone \in ReviewKeys }

\* json.loads(response.text) returns
json_loads(r) == r.kind # "garbage"

\* a plausible slip: the ratings declared as plain str
ContentReviewAnyRating(r) ==
    /\ r.kind = "object"
    /\ ReviewKeys \subseteq DOMAIN r.obj

\* the four review_data[...] lookups and ContentReview's validation pass
ContentReview(r) ==
    /\ r.kind = "object"
    /\ ReviewKeys \subseteq DOMAIN r.obj
    /\ r.obj.story_strength \in StoryStrength
    /\ r.obj.story_length \in StoryLength

Put(m, k, v) == [x \in DOMAIN m \cup {k} |-> IF x = k THEN v ELSE m[x]]

Bump(m, k) == Put(m, k, IF k \in DOMAIN m THEN m[k] + 1 ELSE 1)

Names(dir) == [i \in 1..Len(dir) |-> dir[i].name]

Without(dir, name) ==
    LET keep == {i \in 1..Len(dir) : dir[i].name # name}
        RECURSIVE Build(_)
        Build(i) == IF i > Len(dir) THEN <<>>
                    ELSE (IF i \in keep THEN <<dir[i]>> ELSE <<>>) \o Build(i + 1)
    IN  Build(1)

EntryOf(dir, name) == dir[CHOOSE i \in 1..Len(dir) : dir[i].name = name]

\* the files a working directory may hold when the program is first run
n_txt == <<"n", ".", "t", "x", "t">>
a_mp3 == <<"a", ".", "m", "p", "3">>
a_WAV == <<"a", ".", "W", "A", "V">>
dot_aac == <<".", "a", "a", "c">>

WorkingDirs ==
    { <<>>,
      <<[name |-> n_txt, content |-> "notes"]>>,
      <<[name |-> n_txt, content |-> "notes"], [name |-> a_mp3, content |-> "talk one"]>>,
      <<[name |-> a_WAV, content |-> "talk two"], [name |-> a_mp3, content |-> "talk one"]>>,
      <<[name |-> dot_aac, content |-> "talk three"]>> }

InitPipeline ==
    /\ cwd \in WorkingDirs
    /\ dataDir \in BOOLEAN
    /\ folders = {} /\ files = EmptyMap
    /\ pc = "start" /\ run = 1
    /\ FreshRun
    /\ writes = EmptyMap /\ folderUses = EmptyMap
    /\ start = Snapshot
    /\ LocatorIdle /\ FillerIdle

other == <<locatorVars, fillerVars>>

\* the __main__ block: os.makedirs('data', exist_ok=True), then analyze_audio()
Main ==
    /\ pc = "start"
    /\ dataDir' = TRUE
    /\ pc' = "locate"
    /\ UNCHANGED <<cwd, folders, files, localVars, historyVars, other>>

\* find_audio_file() and the early return
Locate ==
    /\ pc = "locate"
    /\ trace' = Append(trace, "locate")
    /\ audio_file' = find_audio_file(Names(cwd))
    /\ IF audio_file' = None
       THEN pc' = "returned" /\ UNCHANGED src_content
       ELSE pc' = "mkdir" /\ src_content' = EntryOf(cwd, audio_file').content
    /\ UNCHANGED <<fsVars, analysis_id, folder_name, transcript, metrics, review,
                   run, failed_at, calls, response, run_writes, writes, folderUses,
                   start, other>>

\* the identifier, the folder name, os.makedirs(folder_path, exist_ok=True)
CreateFolder ==
    /\ pc = "mkdir"
    /\ trace' = Append(trace, "mkdir")
    /\ \E id \in Ids :
          /\ analysis_id' = id
          /\ folder_name' = folder_path(id, audio_file)
    /\ \/ /\ folders' = folders \cup {folder_name'}
          /\ pc' = "move"
          /\ UNCHANGED failed_at
       \/ /\ pc' = "raised"
          /\ failed_at' = "mkdir"
          /\ UNCHANGED folders
    /\ UNCHANGED <<cwd, dataDir, files, audio_file, transcript, metrics, review,
                   run, calls, response, src_content, run_writes, writes, folderUses,
                   start, other>>

\* a plausible slip: the audio is copied, and stays where it was
MoveAudioCopy ==
    /\ pc = "move"
    /\ trace' = Append(trace, "move")
    /\ files' = Put(files, <<folder_name, audio_file>>,
                    [kind |-> "audio", data |-> EntryOf(cwd, audio_file).content,
                     complete |-> TRUE])
    /\ folderUses' = Bump(folderUses, folder_name)
    /\ pc' = "transcribe"
    /\ UNCHANGED <<cwd, failed_at>>
    /\ UNCHANGED <<dataDir, folders, localVars, run, calls, response, src_content,
                   run_writes, writes, start, other>>

\* shutil.move(audio_file, new_audio_path)
MoveAudio ==
    /\ pc = "move"
    /\ trace' = Append(trace, "move")
    /\ \/ /\ files' = Put(files, <<folder_name, audio_file>>,
                          [kind |-> "audio", data |-> EntryOf(cwd, audio_file).content,
                           complete |-> TRUE])
          /\ cwd' = Without(cwd, audio_file)
          /\ folderUses' = Bump(folderUses, folder_name)
          /\ pc' = "transcribe"
          /\ UNCHANGED failed_at
       \/ /\ pc' = "raised"
          /\ failed_at' = "move"
          /\ UNCHANGED <<cwd, files, folderUses>>
    /\ UNCHANGED <<dataDir, folders, localVars, run, calls, response, src_content,
                   run_writes, writes, start, other>>

\* a plausible slip: a failed transcription is taken as an empty transcript
TranscribeSwallow ==
    /\ pc = "transcribe"
    /\ trace' = Append(trace, "transcribe")
    /\ calls' = [calls EXCEPT !.whisper = @ + 1]
    /\ \/ /\ \E t \in Transcripts : transcript' = t
          /\ pc' = "count"
          /\ UNCHANGED failed_at
       \/ /\ pc' = "count"
          /\ failed_at' = "transcribe"
          /\ UNCHANGED transcript
    /\ UNCHANGED <<fsVars, audio_file, analysis_id, folder_name, metrics, review,
                   run, response, src_content, run_writes, writes, folderUses,
                   start, other>>

\* reader.aload_data(new_audio_path), documents[0].text
Transcribe ==
    /\ pc = "transcribe"
    /\ trace' = Append(trace, "transcribe")
    /\ calls' = [calls EXCEPT !.whisper = @ + 1]
    /\ \/ /\ \E t \in Transcripts : transcript' = t
          /\ pc' = "count"
          /\ UNCHANGED failed_at
       \/ /\ pc' = "raised"
          /\ failed_at' = "transcribe"
          /\ UNCHANGED transcript
    /\ UNCHANGED <<fsVars, audio_file, analysis_id, folder_name, metrics, review,
                   run, response, src_content, run_writes, writes, folderUses,
                   start, other>>

\* the word count, analyze_filler_words(transcript), TranscriptMetrics(...)
CountFillers ==
    /\ pc = "count"
    /\ trace' = Append(trace, "count")
    /\ LET filler_counts == analyze_filler_words(transcript)
       IN  metrics' = [word_count |-> word_count(transcript),
                       filler_words |-> filler_counts,
                       total_filler_words |-> total_fillers(filler_counts)]
    /\ pc' = "review"
    /\ UNCHANGED <<fsVars, audio_file, analysis_id, folder_name, transcript, review,
                   run, failed_at, calls, response, src_content, run_writes, writes,
                   folderUses, start, other>>

\* llm.complete(prompt), json.loads, ContentReview(...), AudioAnalysis(...)
Review ==
    /\ pc = "review"
    /\ trace' = Append(trace, "review")
    /\ calls' = [calls EXCEPT !.llm = @ + 1]
    /\ \/ /\ pc' = "raised"
          /\ failed_at' = "review"
          /\ UNCHANGED <<response, review>>
       \/ \E r \in Responses :
             /\ response' = r
             /\ IF json_loads(r) /\ ContentReview(r)
                THEN /\ review' = [k \in ReviewKeys |-> r.obj[k]]
                     /\ pc' = "write_transcript"
                     /\ UNCHANGED failed_at
                ELSE /\ pc' = "raised"
                     /\ failed_at' = "review"
                     /\ UNCHANGED review
    /\ UNCHANGED <<fsVars, audio_file, analysis_id, folder_name, transcript, metrics,
                   run, src_content, run_writes, writes, folderUses, start, other>>

\* open(path, 'w') then one write of data: the open fails, or the write fails
\* after the open made (or emptied) the file (when there is something to
\* write), or both succeed
WriteFile(stage, name, kind, data, empty, next) ==
    LET path == <<folder_name, name>>
    IN  /\ pc = stage
        /\ trace' = Append(trace, stage)
        /\ \/ /\ pc' = "raised"
              /\ failed_at' = stage
              /\ UNCHANGED <<files, writes, run_writes>>
           \/ /\ ~empty
              /\ files' = Put(files, path, [kind |-> kind, data |-> data, complete |-> FALSE])
              /\ writes' = Bump(writes, path)
              /\ run_writes' = run_writes \cup {name}
              /\ pc' = "raised"
              /\ failed_at' = stage
           \/ /\ files' = Put(files, path, [kind |-> kind, data |-> data, complete |-> TRUE])
              /\ writes' = Bump(writes, path)
              /\ run_writes' = run_writes \cup {name}
              /\ pc' = next
              /\ UNCHANGED failed_at
        /\ UNCHANGED <<cwd, dataDir, folders, localVars, run, calls, response,
                       src_content, folderUses, start, other>>

\* with open(os.path.join(folder_path, 'transcript.txt'), 'w') as f: f.write(transcript)
WriteTranscript ==
    WriteFile("write_transcript", TranscriptTxt, "text", transcript, transcript = <<>>,
              "write_analysis")

\* analysis.save_json(os.path.join(folder_path, 'analysis.json'))
save_json ==
    WriteFile("write_analysis", AnalysisJson, "json",
              [analysis_id |-> analysis_id, filename |-> audio_file,
               timestamp |-> "now", metrics |-> metrics, review |-> review],
              FALSE, "returned")

\* the program is run again
NewRun ==
    /\ pc \in {"returned", "raised"}
    /\ run < MaxRuns
    /\ run' = run + 1
    /\ pc' = "start"
    /\ audio_file' = None /\ analysis_id' = "" /\ folder_name' = <<>>
    /\ transcript' = <<>> /\ metrics' = NoMetrics /\ review' = NoReview
    /\ trace' = <<>> /\ failed_at' = ""
    /\ calls' = [whisper |-> 0, llm |-> 0]
    /\ response' = NoResponse /\ src_content' = "" /\ run_writes' = {}
    /\ start' = Snapshot
    /\ UNCHANGED <<fsVars, writes, folderUses, other>>

Next ==
    \/ Main
    \/ Locate
    \/ CreateFolder
    \/ MoveAudio
    \/ Transcribe
    \/ CountFillers
    \/ Review
    \/ WriteTranscript
    \/ save_json
    \/ NewRun

Spec == InitPipeline /\ [][Next]_vars

-----------------------------------------------------------------------------
(* What the claims speak of *)

Terminal == pc \in {"returned", "raised"}

Entered(stage) == \E i \in 1..Len(trace) : trace[i] = stage

\* the stage was entered and did not raise
Passed(stage) == Entered(stage) /\ failed_at # stage

HasFile(folder, name) == <<folder, name>> \in DOMAIN files

FullFile(folder, name) == HasFile(folder, name) /\ files[<<folder, name>>].complete

\* the order of the stages of analyze_audio
StageOrder ==
    <<"locate", "mkdir", "move", "transcribe", "count", "review",
      "write_transcript", "write_analysis">>

IsPrefix(s, t) == Len(s) <= Len(t) /\ SubSeq(t, 1, Len(s)) = s

\* a and b are the same letter, b in lower case
SameLetter(a, b) == a = b \/ (b \in DOMAIN UpperOf /\ a = UpperOf[b])

SupportedExtensions ==
    { <<"m", "p", "3">>, <<"m", "4", "a">>, <<"w", "a", "v">>, <<"a", "a", "c">>,
      <<"m", "p", "4">> }

\* the name ends with a dot and a supported extension, in whatever case
IsAudioName(n) ==
    \E e \in SupportedExtensions :
        /\ Len(n) > Len(e)
        /\ n[Len(n) - Len(e)] = "."
        /\ \A i \in 1..Len(e) : SameLetter(n[Len(n) - Len(e) + i], e[i])

\* not valid JSON, or not an object with the four keys, or a rating that is
\* not one of the declared ones
Malformed(r) ==
    \/ r.kind # "object"
    \/ \E k \in {"summary", "story_strength", "story_length", "suggestions"} :
          k \notin DOMAIN r.obj
    \/ r.obj.story_strength \notin {"weak", "average", "good", "strong", "excellent"}
    \/ r.obj.story_length \notin {"too short", "just right", "too long"}

\* str.strip() leaves nothing
IsBlank(t) == \A i \in 1..Len(t) : t[i] = " "

\* the artifacts in the run's folder are as they were when the run started
ArtifactsUntouched ==
    /\ run_writes = {}
    /\ \A n \in {TranscriptTxt, AnalysisJson} :
          LET path == <<folder_name, n>>
          IN  IF path \in DOMAIN start.files
              THEN path \in DOMAIN files /\ files[path] = start.files[path]
              ELSE path \notin DOMAIN files

\* data/<id>-<name without its extension>: the name up to its last dot, and a
\* name with nothing but dots before its last dot has no extension
ResultFolder(id, name) ==
    LET dots == {i \in 1..Len(name) : name[i] = "."}
        cut  == {i \in dots : (\A j \in dots : j <= i)
                              /\ \E k \in 1..(i - 1) : name[k] # "."}
    IN  IF cut = {} THEN <<id, "-">> \o name
        ELSE <<id, "-">> \o SubSeq(name, 1, (CHOOSE i \in cut : TRUE) - 1)

-----------------------------------------------------------------------------
(* The claims *)

\* C1: in every terminal state of a run, the result folder holds transcript.txt
\* and analysis.json both, complete, or neither of them.
C1_AllOrNothing ==
    Terminal =>
        \/ FullFile(folder_name, TranscriptTxt) /\ FullFile(folder_name, AnalysisJson)
        \/ ~HasFile(folder_name, TranscriptTxt) /\ ~HasFile(folder_name, AnalysisJson)

\* C2: the stages run in the fixed order, each at most once; a stage that fails
\* is the last one of the run and the failure is raised to the caller; each
\* collaborator is called at most once; after a failed folder creation or move
\* the transcription collaborator was not called, and after a failed
\* transcription the completion collaborator was not called.
C2_FixedOrderFailFast ==
    /\ IsPrefix(trace, StageOrder)
    /\ calls.whisper <= 1 /\ calls.llm <= 1
    /\ (failed_at # "") <=> (pc = "raised")
    /\ failed_at # "" => trace # <<>> /\ trace[Len(trace)] = failed_at
    /\ failed_at \in {"mkdir", "move"} => calls.whisper = 0 /\ calls.llm = 0
    /\ failed_at = "transcribe" => calls.whisper = 1 /\ calls.llm = 0
    /\ pc = "returned" => trace = <<"locate">> \/ trace = StageOrder

C2_TranscriptionFailedWitness ==
    /\ pc = "raised" /\ failed_at = "transcribe"
    /\ trace = <<"locate", "mkdir", "move", "transcribe">>
    /\ calls = [whisper |-> 1, llm |-> 0]

\* C3: a run started in a working directory without a supported audio file ends
\* without an error and leaves the filesystem as it found it.
C3_NoAudioNoMutation ==
    (Terminal /\ \A i \in 1..Len(start.cwd) : ~IsAudioName(start.cwd[i].name)) =>
        pc = "returned" /\ Snapshot = start

\* C4: when the completion collaborator returned text that is not valid JSON,
\* lacks one of the four keys or carries an undeclared rating, the run has
\* failed in the review stage and has written neither artifact.
C4_MalformedReviewRejected ==
    (response.kind # "none" /\ Malformed(response)) =>
        pc = "raised" /\ failed_at = "review" /\ ArtifactsUntouched

C4_BadRatingWitness ==
    /\ response.kind = "object"
    /\ "story_strength" \in DOMAIN response.obj
    /\ response.obj.story_strength = "great"
    /\ pc = "raised"

\* C5: when the transcription collaborator returned empty or whitespace-only
\* text, the completion collaborator is not called, no artifact is written and
\* the run does not end in success.
C5_BlankTranscriptIsFatal ==
    (Passed("transcribe") /\ IsBlank(transcript)) =>
        calls.llm = 0 /\ run_writes = {} /\ pc # "returned"

\* C6: every artifact file is opened for writing once at most, and no result
\* folder holds the audio files of two runs.
C6_WrittenOnceNoSharedFolder ==
    /\ \A p \in DOMAIN writes : writes[p] <= 1
    /\ \A f \in DOMAIN folderUses : folderUses[f] <= 1

\* C7: find_audio_file returns the first entry of the listing whose name ends,
\* in whatever case, with a supported extension, None exactly when there is no
\* such entry, and the one supported entry when there is exactly one.
C7_FirstSupportedEntry ==
    found # <<>> =>
        LET supported == {i \in 1..Len(listing) : IsAudioName(listing[i])}
        IN  /\ (found[1] = None) <=> (supported = {})
            /\ supported # {} =>
                  found[1] = listing[CHOOSE i \in supported : \A j \in supported : i <= j]
            /\ Cardinality(supported) = 1 =>
                  \A i \in supported : found[1] = listing[i]

C7_UpperCaseLastWitness ==
    /\ found = << <<"c", ".", "W", "A", "V">> >>
    /\ Len(listing) = 3
    /\ listing[3] = <<"c", ".", "W", "A", "V">>

\* C8: once the audio file is relocated, in every later state of the run it is
\* at data/<id>-<name without extension>/<name> with the content it had, and
\* no longer in the working directory.
C8_RelocationPersists ==
    Passed("move") =>
        LET path == <<ResultFolder(analysis_id, audio_file), audio_file>>
        IN  /\ path \in DOMAIN files
            /\ files[path] = [kind |-> "audio", data |-> src_content, complete |-> TRUE]
            /\ \A i \in 1..Len(cwd) : cwd[i].name # audio_file

C8_FailedAfterRelocationWitness ==
    /\ Passed("move") /\ pc = "raised" /\ failed_at = "write_analysis"
    /\ audio_file = a_WAV

\* C9: every review in a complete analysis.json has a suggestion.
C9_SuggestionsNonEmpty ==
    \A p \in DOMAIN files :
        (files[p].kind = "json" /\ files[p].complete) =>
            files[p].data.review.suggestions # <<>>

\* C10: the result holds only expressions with a count above zero, and putting
\* a filler expression into the transcript next to a word character, so that
\* it is part of a longer word, raises no count.
C10_WholeWordsOnly ==
    edit # <<>> =>
        LET pos      == edit[1].pos
            attached == \/ pos >= 1 /\ IsWordChar(text[pos])
                        \/ pos < Len(text) /\ IsWordChar(text[pos + 1])
        IN  /\ \A f \in DOMAIN before : before[f] > 0
            /\ \A f \in DOMAIN after : after[f] > 0
            /\ attached =>
                  \A i \in 1..Len(FillerNames) :
                      CountOf(after, FillerNames[i]) <= CountOf(before, FillerNames[i])

C10_InsideLongerWordWitness ==
    /\ edit = <<[filler |-> "like", pos |-> 2]>>
    /\ text = <<",", "x">>
    /\ before = EmptyMap
    /\ after = EmptyMap

=============================================================================
